---- MODULE Spec2Model ----
(***************************************************************************)
(* Model of src/app.py: the invoice analysis pipeline (date normalisation, *)
(* weekly frequency, two-pass 80% concentration analysis, per-pair         *)
(* forecasting loop) and the header ranking of recommend_columns.          *)
(*                                                                         *)
(* Conventions.  A date cell is a record [t, v]: t = "num" (a number, v =  *)
(* <<serial>>), "nan" (missing), "str" (a text 'YYYY-MM-DD', v = <<y,m,d>>,*)
(* or an unparseable text, v = <<>>), "ts" (a timestamp, v = <<days since  *)
(* 1970-01-01, nanoseconds from that midnight>>) or "nat" (pandas NaT).    *)
(* Input dates are whole days; numbers are integers.  Percentages are kept *)
(* in tenths of a percent (80.0 is 800): line 128 leaves the float nearest *)
(* a value with one decimal, and which value is computed as float64 does.  *)
(* Manufacturer and item identifiers are integers so that groupby's key    *)
(* order is the integer order.  The fitted values (yhat) of the forecasting*)
(* engine are not modelled; a forecast is its tag and its number of rows.  *)
(* The two average-weekly tables (lines 125 and 135) are left out: nothing *)
(* later in main reads them.  pandas 2 is the library modelled.            *)
(***************************************************************************)
EXTENDS Integers, Sequences, FiniteSets, TLC

VARIABLES
    pc,                          \* position in main / forecast_usage / recommend_columns
    sheet,                       \* the worksheet main reads; never written
    data,                        \* the table: records [date, manufacturer, item, Week, Year]
    manufacturer_count,          \* weekly manufacturer frequency table
    manufacturer_total_freq,     \* first-pass concentration table
    top_80_manufacturers,        \* first-pass selection
    top_manufacturer_item_count, \* weekly manufacturer-item frequency table
    item_total_freq,             \* second-pass concentration table
    top_80_items,                \* second-pass selection
    top_items,                   \* forecast_usage: the pairs argument
    idx,                         \* forecast_usage: position of the for loop
    forecast_results,            \* forecast_usage: the accumulator list
    combined_forecast,           \* forecast_usage: the returned table
    status,                      \* "idle", "running", "returned" or "raised"
    exc,                         \* the exception that ended the run, or "none"
    fit_failed,                  \* pairs whose Prophet fit/predict raised
    headers,                     \* recommend_columns: the headers argument
    results,                     \* recommend_columns: label -> [(header, score)]
    ranked_columns               \* recommend_columns: the returned dict

vars == <<pc, sheet, data, manufacturer_count, manufacturer_total_freq, top_80_manufacturers,
          top_manufacturer_item_count, item_total_freq, top_80_items, top_items, idx,
          forecast_results, combined_forecast, status, exc, fit_failed,
          headers, results, ranked_columns>>

mainVars == <<sheet, data, manufacturer_count, manufacturer_total_freq, top_80_manufacturers,
              top_manufacturer_item_count, item_total_freq, top_80_items>>
forecastVars == <<top_items, idx, forecast_results, combined_forecast, status, exc,
                  fit_failed>>
rankVars == <<headers, results, ranked_columns>>

-----------------------------------------------------------------------------
(* Bounds of the model *)

MaxRecords == 4
MaxPairs == 2
MaxGroups == 4
MaxTotal == 20
MaxHeaders == 3

(* Program constants *)

Threshold == 80
Periods == 52
MinPoints == 2

\* pandas counts a Timedelta and a Timestamp in int64 nanoseconds: the whole
\* days that fit, before or after 1970-01-01
MaxTimedeltaDays == 106751

-----------------------------------------------------------------------------
(* Calendar arithmetic: what pandas does with Timestamp, .dt.year and       *)
(* .dt.isocalendar().week, on whole days counted from 1970-01-01.           *)

IsLeap(y) == (y % 4 = 0 /\ y % 100 # 0) \/ y % 400 = 0

DaysInMonth(y, m) ==
    IF m = 2 THEN (IF IsLeap(y) THEN 29 ELSE 28)
    ELSE IF m \in {4, 6, 9, 11} THEN 30 ELSE 31

DaysFromCivil(y, m, d) ==
    LET yy  == IF m <= 2 THEN y - 1 ELSE y
        era == yy \div 400
        yoe == yy - era * 400
        mp  == (m + 9) % 12
        doy == (153 * mp + 2) \div 5 + d - 1
        doe == yoe * 365 + yoe \div 4 - yoe \div 100 + doy
    IN  era * 146097 + doe - 719468

YearOf(z) ==
    LET s   == z + 719468
        era == s \div 146097
        doe == s - era * 146097
        yoe == (doe - doe \div 1460 + doe \div 36524 - doe \div 146096) \div 365
        doy == doe - (365 * yoe + yoe \div 4 - yoe \div 100)
        mp  == (5 * doy + 2) \div 153
        m   == IF mp < 10 THEN mp + 3 ELSE mp - 9
    IN  yoe + era * 400 + (IF m <= 2 THEN 1 ELSE 0)

\* Monday is 0; 1970-01-01 was a Thursday
Weekday(z) == (z + 3) % 7

MondayOf(z) == z - Weekday(z)

\* ISO 8601: the week of a day is the week of the Thursday of its Monday-Sunday week
IsoWeek(z) ==
    LET thursday == MondayOf(z) + 3
    IN  (thursday - DaysFromCivil(YearOf(thursday), 1, 1)) \div 7 + 1

ExcelEpoch == DaysFromCivil(1899, 12, 30)

-----------------------------------------------------------------------------
(* Date cells *)

\* A number, a missing number, a text 'y-m-d', a text that is no date, the
\* timestamp ns nanoseconds from midnight of day z, and the missing timestamp
Num(n) == [t |-> "num", v |-> <<n>>]
NaN == [t |-> "nan", v |-> <<>>]
Text(y, m, d) == [t |-> "str", v |-> <<y, m, d>>]
Junk == [t |-> "str", v |-> <<>>]
At(z, ns) == [t |-> "ts", v |-> <<z, ns>>]
Ts(z) == At(z, 0)
NaT == [t |-> "nat", v |-> <<>>]

\* What a conversion that raises leaves in place of a cell
OutOfBounds == [t |-> "raise", v |-> <<>>]

IsNa(c) == c.t \in {"nan", "nat"}

\* The day a timestamp falls on (ns is less than a day either way)
Day(c) == IF c.v[2] < 0 THEN c.v[1] - 1 ELSE c.v[1]

InBounds(z) == -MaxTimedeltaDays <= z /\ z <= MaxTimedeltaDays

\* pd.api.types.is_numeric_dtype: a float64/int64 column holds numbers and NaN only;
\* an empty column or one holding text has dtype object
is_numeric_dtype(col) ==
    /\ Len(col) > 0
    /\ \A k \in DOMAIN col : col[k].t \in {"num", "nan"}

\* A text that names a day of the calendar
IsCalendarDay(c) ==
    /\ c.t = "str"
    /\ Len(c.v) = 3
    /\ c.v[2] \in 1..12
    /\ c.v[3] \in 1..DaysInMonth(c.v[1], c.v[2])

\* pd.to_datetime(..., errors='coerce') of one cell under the format guessed
\* for the column: a timestamp stays, a text in the format naming a day within
\* 1677-09-22..2262-04-11 is that day, anything else (a number too) is NaT
ParseWithFormat(c) ==
    IF c.t = "ts" THEN c
    ELSE IF IsCalendarDay(c) /\ InBounds(DaysFromCivil(c.v[1], c.v[2], c.v[3]))
         THEN Ts(DaysFromCivil(c.v[1], c.v[2], c.v[3]))
         ELSE NaT

\* pd.to_datetime(..., errors='coerce') of one cell taken by itself: a number
\* is that many nanoseconds from 1970-01-01
ParseDate(c) == IF c.t = "num" THEN At(0, c.v[1]) ELSE ParseWithFormat(c)

\* pandas 2 guesses a format from the first non-null cell of an object column
\* and finds one when that cell is a text naming a day; otherwise each cell is
\* taken by itself
FormatInferred(col) ==
    \E k \in DOMAIN col :
        /\ ~IsNa(col[k])
        /\ \A j \in 1..(k - 1) : IsNa(col[j])
        /\ IsCalendarDay(col[k])

\* pd.to_datetime('1899-12-30') + pd.to_timedelta(serial, 'D') of one cell:
\* to_timedelta raises when the days do not fit a Timedelta, and the addition
\* when the sum does not fit a Timestamp
SerialToDate(c) ==
    IF c.t # "num" THEN NaT
    ELSE IF InBounds(c.v[1]) /\ InBounds(ExcelEpoch + c.v[1])
         THEN Ts(ExcelEpoch + c.v[1])
         ELSE OutOfBounds

\* Lines 51-56: the converted column, or that the conversion raised
convert_excel_date(date_series) ==
    LET cells == IF is_numeric_dtype(date_series)
                 THEN [k \in DOMAIN date_series |-> SerialToDate(date_series[k])]
                 ELSE IF FormatInferred(date_series)
                 THEN [k \in DOMAIN date_series |-> ParseWithFormat(date_series[k])]
                 ELSE [k \in DOMAIN date_series |-> ParseDate(date_series[k])]
        raised == \E k \in DOMAIN cells : cells[k] = OutOfBounds
    IN  [raised |-> raised, dates |-> IF raised THEN <<>> ELSE cells]

DateColumn(d) == [k \in DOMAIN d |-> d[k].date]

\* data.dropna(subset=[date_column])
KeepRow(r) == ~IsNa(r.date)
dropna(d) == SelectSeq(d, KeepRow)

-----------------------------------------------------------------------------
(* Table helpers: groupby(...).size(), value_counts(), round(1), cumsum()   *)

RECURSIVE LexLess(_, _)
LexLess(a, b) ==
    IF a = <<>> \/ b = <<>> THEN FALSE
    ELSE IF Head(a) # Head(b) THEN Head(a) < Head(b)
    ELSE LexLess(Tail(a), Tail(b))

RECURSIVE SortedKeys(_)
SortedKeys(S) ==
    IF S = {} THEN <<>>
    ELSE LET least == CHOOSE x \in S : \A y \in S : x = y \/ LexLess(x, y)
         IN  <<least>> \o SortedKeys(S \ {least})

CountOf(keys, key) == Cardinality({k \in DOMAIN keys : keys[k] = key})

\* df.groupby(cols).size().reset_index(name=...): one row per distinct key, in
\* ascending key order (groupby sorts its keys), with the number of records
GroupBySize(keys) ==
    LET ks == SortedKeys({keys[k] : k \in DOMAIN keys})
    IN  [j \in DOMAIN ks |-> [key |-> ks[j], n |-> CountOf(keys, ks[j])]]

RECURSIVE Unique(_)
Unique(s) ==
    IF s = <<>> THEN <<>>
    ELSE <<Head(s)>> \o Unique(SelectSeq(Tail(s), LAMBDA x : x # Head(s)))

\* The permutation of a stable sort by descending weight: p[q] is the index of
\* the element that comes q-th
StableDescOrder(w) ==
    LET before(j) == {i \in DOMAIN w : w[i] > w[j] \/ (w[i] = w[j] /\ i < j)}
    IN  [q \in DOMAIN w |-> CHOOSE j \in DOMAIN w : Cardinality(before(j)) + 1 = q]

\* Series.value_counts(): distinct values with their counts, most frequent
\* first, equal counts in order of first appearance
value_counts(col) ==
    LET u == Unique(col)
        c == [j \in DOMAIN u |-> CountOf(col, u[j])]
        p == StableDescOrder(c)
    IN  [q \in DOMAIN u |-> [key |-> u[p[q]], n |-> c[p[q]]]]

\* num / den rounded to the nearest integer, ties to the even one
RoundHalfEven(num, den) ==
    LET q == num \div den
        r == num % den
    IN  IF 2 * r < den THEN q
        ELSE IF 2 * r > den THEN q + 1
        ELSE IF q % 2 = 0 THEN q ELSE q + 1

(* float64 arithmetic.  A natural number of any size is a sequence of bits,  *)
(* least significant first, its last bit 1; a float is [m, e], standing for  *)
(* m * 2^e, with m of at most 53 bits (54 after a carry, the low bit then 0).*)

\* x + y, the carry into each position looked ahead: some lower position
\* generates it and every position between passes it on
BitsAdd(x, y) ==
    LET X(j) == IF j <= Len(x) THEN x[j] ELSE 0
        Y(j) == IF j <= Len(y) THEN y[j] ELSE 0
        C(j) == IF \E i \in 1..(j - 1) :
                       /\ X(i) + Y(i) = 2
                       /\ \A k \in (i + 1)..(j - 1) : X(k) + Y(k) >= 1
                THEN 1 ELSE 0
        n    == IF Len(x) >= Len(y) THEN Len(x) ELSE Len(y)
    IN  [j \in 1..(n + C(n + 1)) |-> (X(j) + Y(j) + C(j)) % 2]

ShiftLeft(x, k) == [j \in 1..k |-> 0] \o x

RECURSIVE BitsValue(_)
BitsValue(x) == IF x = <<>> THEN 0 ELSE Head(x) + 2 * BitsValue(Tail(x))

\* x rounded to 53 significant bits, ties to even: m * 2^e
Round53(x) ==
    LET d == Len(x) - 53
    IN  IF d <= 0 THEN [m |-> x, e |-> 0]
        ELSE LET low  == SubSeq(x, 1, d)
                 high == SubSeq(x, d + 1, Len(x))
                 up   == /\ low[d] = 1
                         /\ (\E j \in 1..(d - 1) : low[j] = 1) \/ high[1] = 1
             IN  [m |-> IF up THEN BitsAdd(high, <<1>>) ELSE high, e |-> d]

\* The number of bits of i
BitLength(i) == CHOOSE j \in 0..30 : i < 2 ^ j /\ (j = 0 \/ i >= 2 ^ (j - 1))

\* (r * 2^k) % t, for r < t < 2^23
RECURSIVE ScaledRem(_, _, _)
ScaledRem(r, t, k) ==
    IF k <= 8 THEN (r * 2 ^ k) % t ELSE ScaledRem((r * 256) % t, t, k - 8)

\* The float n / t, for 0 <= n < 2^30 and 0 < t < 2^23.  The bit of weight
\* 2^-k of n / t is a bit of n \div t for k <= 0 and floor(2 * R(k - 1) / t)
\* for k > 0, R(k) the remainder of (n % t) * 2^k by t.  The 53 bits from the
\* leading 1 down are kept, and what is left below them rounds them, ties to
\* even
FloatQuotient(n, t) ==
    IF n = 0 THEN [m |-> <<>>, e |-> 0]
    ELSE LET i      == n \div t
             R(k)   == ScaledRem(n % t, t, k)
             bit(k) == IF k <= 0 THEN (i \div 2 ^ (-k)) % 2
                       ELSE (2 * R(k - 1)) \div t
             lead   == IF i > 0 THEN 1 - BitLength(i)
                       ELSE CHOOSE k \in 1..24 :
                                bit(k) = 1 /\ \A j \in 1..(k - 1) : bit(j) = 0
             last   == lead + 52
             bits   == [j \in 1..53 |-> bit(last - j + 1)]
             up     == IF last <= 0 THEN FALSE
                       ELSE 2 * R(last) > t \/ (2 * R(last) = t /\ bits[1] = 1)
         IN  [m |-> IF up THEN BitsAdd(bits, <<1>>) ELSE bits, e |-> -last]

\* The float f * 100
FloatTimes100(f) ==
    LET r == Round53(BitsAdd(BitsAdd(ShiftLeft(f.m, 6), ShiftLeft(f.m, 5)),
                             ShiftLeft(f.m, 2)))
    IN  [m |-> r.m, e |-> f.e + r.e]

\* The float f * 10
FloatTimes10(f) ==
    LET r == Round53(BitsAdd(ShiftLeft(f.m, 3), ShiftLeft(f.m, 1)))
    IN  [m |-> r.m, e |-> f.e + r.e]

\* np.rint of a float below 2^31 with a negative exponent: the nearest integer,
\* ties to even
FloatRint(f) ==
    LET k == -f.e
        n == Len(f.m)
    IN  IF k > n THEN 0
        ELSE LET i  == BitsValue(SubSeq(f.m, k + 1, n))
                 up == /\ f.m[k] = 1
                       /\ (\E j \in 1..(k - 1) : f.m[j] = 1) \/ i % 2 = 1
             IN  IF up THEN i + 1 ELSE i

\* (n / total * 100).round(1) in tenths; numpy rounds x to 1 decimal as
\* rint(x * 10) / 10
FloatPercentTenths(n, total) ==
    FloatRint(FloatTimes10(FloatTimes100(FloatQuotient(n, total))))

RECURSIVE SumTo(_, _)
SumTo(s, k) == IF k = 0 THEN 0 ELSE s[k] + SumTo(s, k - 1)

\* Line 128, in tenths.  Where 1000 * n / total is not exactly halfway between
\* two integers it is at least 1 / (2 * total) away from halfway, far more than
\* the error of the float computation, so the float rounds as the exact
\* quotient does; exactly halfway, the float computation decides
PercentContribution(n, total) ==
    IF 2 * ((1000 * n) % total) = total
    THEN FloatPercentTenths(n, total)
    ELSE RoundHalfEven(1000 * n, total)

\* Lines 127-129 and 137-138: the concentration columns of a table of counts,
\* in the order the table has.  The running float sum of line 129 is within
\* 1e-9 of the sum of the tenths, and its round(1) is that sum
Concentration(counts) ==
    LET tf    == [j \in DOMAIN counts |-> counts[j].n]
        total == SumTo(tf, Len(tf))
        pct   == [j \in DOMAIN counts |-> PercentContribution(tf[j], total)]
    IN  [j \in DOMAIN counts |->
            [key |-> counts[j].key,
             TotalFrequency |-> tf[j],
             PercentContribution |-> pct[j],
             CumulativePercentage |-> SumTo(pct, j)]]

\* The cut-off taken as < 80 instead of <= 80
StrictlyWithinThreshold(row) == row.CumulativePercentage < Threshold * 10

\* table[table['Cumulative Percentage'] <= 80]: a row filter
WithinThreshold(row) == row.CumulativePercentage <= Threshold * 10
Top80(table) == SelectSeq(table, WithinThreshold)

Keys(table) == [j \in DOMAIN table |-> table[j].key]
KeySet(table) == {table[j].key : j \in DOMAIN table}

\* top_80_manufacturers[manufacturer_column].tolist()
top_manufacturers == [j \in DOMAIN top_80_manufacturers |-> top_80_manufacturers[j].key[1]]

\* The isin(top_manufacturers) filter of lines 134 and 136 left out
FilterNone(d) == d

InTopManufacturers(r) == \E j \in DOMAIN top_manufacturers : top_manufacturers[j] = r.manufacturer
FilterTop(d) == SelectSeq(d, InTopManufacturers)

WeekManKeys(d) == [k \in DOMAIN d |-> <<d[k].Year, d[k].Week, d[k].manufacturer>>]
WeekManItemKeys(d) == [k \in DOMAIN d |-> <<d[k].Year, d[k].Week, d[k].manufacturer, d[k].item>>]
ManKeys(d) == [k \in DOMAIN d |-> <<d[k].manufacturer>>]
ManItemKeys(d) == [k \in DOMAIN d |-> <<d[k].manufacturer, d[k].item>>]

-----------------------------------------------------------------------------
(* main *)

Catalog == {<<1, 1>>, <<1, 2>>, <<2, 1>>}

\* 2024-01-01 and 2024-12-30 as spreadsheet serial numbers, and a serial past
\* the days a Timedelta holds
NumericCells == {NaN, Num(45292), Num(45656), Num(200000)}
TextCells == {Text(2025, 2, 30), Text(2024, 12, 30), Text(2025, 1, 1)}
MixedCells == {Junk, Num(45292), Text(2024, 12, 30), Text(3000, 1, 1)}

\* One record as read: the Week and Year columns do not exist yet (0)
Row(cell, pair) ==
    [date |-> cell, manufacturer |-> pair[1], item |-> pair[2], Week |-> 0, Year |-> 0]

\* The tables of n records whose date cells are drawn from cells
Tables(n, cells) == [1..n -> {Row(c, p) : c \in cells, p \in Catalog}]

IdleForecast ==
    /\ top_items = <<>>
    /\ idx = 0
    /\ forecast_results = <<>>
    /\ combined_forecast = <<>>
    /\ status = "idle"
    /\ exc = "none"
    /\ fit_failed = <<>>

IdleRank ==
    /\ headers = <<>>
    /\ results = <<>>
    /\ ranked_columns = <<>>

IdleTables ==
    /\ manufacturer_count = <<>>
    /\ manufacturer_total_freq = <<>>
    /\ top_80_manufacturers = <<>>
    /\ top_manufacturer_item_count = <<>>
    /\ item_total_freq = <<>>
    /\ top_80_items = <<>>

\* Line 100: data is the sheet as read, its date column numeric or holding text
Init ==
    /\ pc = "loaded"
    /\ \E n \in 0..MaxRecords, cells \in {NumericCells, TextCells, MixedCells} :
           sheet \in Tables(n, cells)
    /\ data = sheet
    /\ IdleTables
    /\ IdleForecast
    /\ IdleRank

\* Line 114
ConvertDates ==
    /\ pc = "loaded"
    /\ LET converted == convert_excel_date(DateColumn(data))
       IN  /\ ~converted.raised
           /\ data' = [k \in DOMAIN data |-> [data[k] EXCEPT !.date = converted.dates[k]]]
    /\ pc' = "converted"
    /\ UNCHANGED <<sheet, manufacturer_count, manufacturer_total_freq, top_80_manufacturers,
                   top_manufacturer_item_count, item_total_freq, top_80_items>>
    /\ UNCHANGED <<forecastVars, rankVars>>

\* Line 114 raising: nothing in main catches it, and the run ends there
ConvertRaises ==
    /\ pc = "loaded"
    /\ convert_excel_date(DateColumn(data)).raised
    /\ pc' = "crashed"
    /\ exc' = "OutOfBounds"
    /\ UNCHANGED <<mainVars, top_items, idx, forecast_results, combined_forecast,
                   status, fit_failed>>
    /\ UNCHANGED rankVars

\* Line 117
DropInvalidDates ==
    /\ pc = "converted"
    /\ data' = dropna(data)
    /\ pc' = "dropped"
    /\ UNCHANGED <<sheet, manufacturer_count, manufacturer_total_freq, top_80_manufacturers,
                   top_manufacturer_item_count, item_total_freq, top_80_items>>
    /\ UNCHANGED <<forecastVars, rankVars>>

\* Lines 120-121: Week is the ISO week, Year the calendar year
WithWeekYear(d) ==
    [k \in DOMAIN d |->
        [d[k] EXCEPT !.Week = IsoWeek(Day(d[k].date)), !.Year = YearOf(Day(d[k].date))]]

ExtractWeekYear ==
    /\ pc = "dropped"
    /\ data' = WithWeekYear(data)
    /\ pc' = "weeks"
    /\ UNCHANGED <<sheet, manufacturer_count, manufacturer_total_freq, top_80_manufacturers,
                   top_manufacturer_item_count, item_total_freq, top_80_items>>
    /\ UNCHANGED <<forecastVars, rankVars>>

\* Lines 124-131
ManufacturerTotalFreq(d) == Concentration(value_counts(ManKeys(d)))

AnalyzeManufacturers ==
    /\ pc = "weeks"
    /\ manufacturer_count' = GroupBySize(WeekManKeys(data))
    /\ manufacturer_total_freq' = ManufacturerTotalFreq(data)
    /\ top_80_manufacturers' = Top80(manufacturer_total_freq')
    /\ pc' = "manufacturers"
    /\ UNCHANGED <<sheet, data, top_manufacturer_item_count, item_total_freq, top_80_items>>
    /\ UNCHANGED <<forecastVars, rankVars>>

\* Lines 134-139
ItemTotalFreq(d) == Concentration(GroupBySize(ManItemKeys(d)))

AnalyzeItems ==
    /\ pc = "manufacturers"
    /\ top_manufacturer_item_count' = GroupBySize(WeekManItemKeys(FilterTop(data)))
    /\ item_total_freq' = ItemTotalFreq(FilterTop(data))
    /\ top_80_items' = Top80(item_total_freq')
    /\ pc' = "items"
    /\ UNCHANGED <<sheet, data, manufacturer_count, manufacturer_total_freq,
                   top_80_manufacturers>>
    /\ UNCHANGED <<forecastVars, rankVars>>

\* Lines 144-172: the report is written
SaveReport ==
    /\ pc = "forecasted"
    /\ pc' = "saved"
    /\ UNCHANGED <<mainVars, forecastVars, rankVars>>

-----------------------------------------------------------------------------
(* forecast_usage *)

\* Line 63
ItemData(d, pair) ==
    SelectSeq(d, LAMBDA r : r.manufacturer = pair[1] /\ r.item = pair[2])

\* Lines 64-66: one point per distinct date, y the number of records of that date
Series(d, pair) ==
    LET dates == DateColumn(ItemData(d, pair))
        u     == Unique(dates)
    IN  [j \in DOMAIN u |-> [ds |-> u[j], y |-> CountOf(dates, u[j])]]

\* The length test of line 68 off by one
TooShortOffByOne(series) == Len(series) <= MinPoints

\* Line 68
TooShort(series) == Len(series) < MinPoints

\* Lines 72-82: the fitted history and Periods future weeks, tagged with the pair
Forecast(pair, series) ==
    [manufacturer |-> pair[1], item |-> pair[2], rows |-> Len(series) + Periods]

\* Line 142: main calls forecast_usage with top_80_items.values.tolist()
CallForecast ==
    /\ pc = "items"
    /\ top_items' = Keys(top_80_items)
    /\ idx' = 1
    /\ forecast_results' = <<>>
    /\ status' = "running"
    /\ pc' = "forecast"
    /\ UNCHANGED <<combined_forecast, exc, fit_failed>>
    /\ UNCHANGED <<mainVars, rankVars>>

\* Lines 68-69: continue
SkipPair ==
    /\ pc = "forecast"
    /\ idx <= Len(top_items)
    /\ TooShort(Series(data, top_items[idx]))
    /\ idx' = idx + 1
    /\ UNCHANGED <<pc, top_items, forecast_results, combined_forecast, status, exc,
                   fit_failed>>
    /\ UNCHANGED <<mainVars, rankVars>>

\* Lines 72-82, fit and predict succeed
FitPair ==
    /\ pc = "forecast"
    /\ idx <= Len(top_items)
    /\ ~TooShort(Series(data, top_items[idx]))
    /\ forecast_results' =
           Append(forecast_results, Forecast(top_items[idx], Series(data, top_items[idx])))
    /\ idx' = idx + 1
    /\ UNCHANGED <<pc, top_items, combined_forecast, status, exc, fit_failed>>
    /\ UNCHANGED <<mainVars, rankVars>>

\* Lines 73 and 79, fit or predict raises: nothing catches it, the call ends
FitRaises ==
    /\ pc = "forecast"
    /\ idx <= Len(top_items)
    /\ ~TooShort(Series(data, top_items[idx]))
    /\ fit_failed' = Append(fit_failed, top_items[idx])
    /\ status' = "raised"
    /\ exc' = "FitError"
    /\ pc' = "aborted"
    /\ UNCHANGED <<top_items, idx, forecast_results, combined_forecast>>
    /\ UNCHANGED <<mainVars, rankVars>>

\* Lines 85-87, something to concatenate
ConcatForecasts ==
    /\ pc = "forecast"
    /\ idx > Len(top_items)
    /\ forecast_results # <<>>
    /\ combined_forecast' = forecast_results
    /\ status' = "returned"
    /\ pc' = "forecasted"
    /\ UNCHANGED <<top_items, idx, forecast_results, exc, fit_failed>>
    /\ UNCHANGED <<mainVars, rankVars>>

\* Line 85, pd.concat of an empty list: ValueError('No objects to concatenate')
ConcatRaises ==
    /\ pc = "forecast"
    /\ idx > Len(top_items)
    /\ forecast_results = <<>>
    /\ status' = "raised"
    /\ exc' = "ValueError"
    /\ pc' = "aborted"
    /\ UNCHANGED <<top_items, idx, forecast_results, combined_forecast, fit_failed>>
    /\ UNCHANGED <<mainVars, rankVars>>

Next ==
    \/ ConvertDates
    \/ ConvertRaises
    \/ DropInvalidDates
    \/ ExtractWeekYear
    \/ AnalyzeManufacturers
    \/ AnalyzeItems
    \/ CallForecast
    \/ SkipPair
    \/ FitPair
    \/ FitRaises
    \/ ConcatForecasts
    \/ ConcatRaises
    \/ SaveReport

Spec == Init /\ [][Next]_vars

-----------------------------------------------------------------------------
(* forecast_usage on its own: any table main can pass it (valid dates, Week *)
(* and Year set) and any list of distinct pairs                             *)

ValidCells == {Ts(DaysFromCivil(2024, 12, 30)), Ts(DaysFromCivil(2025, 1, 1))}

Distinct(l) == \A i, j \in DOMAIN l : i # j => l[i] # l[j]

InitForecast ==
    /\ pc = "forecast"
    /\ sheet = <<>>
    /\ \E n \in 0..MaxRecords :
           \E t \in Tables(n, ValidCells) : data = WithWeekYear(t)
    /\ IdleTables
    /\ \E n \in 0..MaxPairs :
           top_items \in {l \in [1..n -> Catalog] : Distinct(l)}
    /\ idx = 1
    /\ forecast_results = <<>>
    /\ combined_forecast = <<>>
    /\ status = "running"
    /\ exc = "none"
    /\ fit_failed = <<>>
    /\ IdleRank

NextForecast ==
    \/ SkipPair
    \/ FitPair
    \/ FitRaises
    \/ ConcatForecasts
    \/ ConcatRaises

SpecForecast == InitForecast /\ [][NextForecast]_vars

-----------------------------------------------------------------------------
(* The concentration columns and the 80% selection on a table of counts as  *)
(* value_counts returns it: most frequent first                             *)

RECURSIVE CountLists(_, _, _)
CountLists(n, most, total) ==
    IF n = 0 THEN {<<>>}
    ELSE {<<>>} \cup
         UNION {{<<c>> \o rest : rest \in CountLists(n - 1, c, total - c)} :
                   c \in 1..(IF most < total THEN most ELSE total)}

CountsTable(l) == [j \in DOMAIN l |-> [key |-> <<j>>, n |-> l[j]]]

InitSelect ==
    /\ pc = "counted"
    /\ sheet = <<>>
    /\ data = <<>>
    /\ manufacturer_count = <<>>
    /\ manufacturer_total_freq \in
           {CountsTable(l) : l \in CountLists(MaxGroups, MaxTotal, MaxTotal)}
    /\ top_80_manufacturers = <<>>
    /\ top_manufacturer_item_count = <<>>
    /\ item_total_freq = <<>>
    /\ top_80_items = <<>>
    /\ IdleForecast
    /\ IdleRank

\* Lines 128-130
SelectTop80 ==
    /\ pc = "counted"
    /\ manufacturer_total_freq' = Concentration(manufacturer_total_freq)
    /\ top_80_manufacturers' = Top80(manufacturer_total_freq')
    /\ pc' = "manufacturers"
    /\ UNCHANGED <<sheet, data, manufacturer_count, top_manufacturer_item_count,
                   item_total_freq, top_80_items>>
    /\ UNCHANGED <<forecastVars, rankVars>>

NextSelect == SelectTop80

SpecSelect == InitSelect /\ [][NextSelect]_vars

-----------------------------------------------------------------------------
(* recommend_columns *)

\* Line 30
labels == <<"date", "manufacturer", "item number">>

HeaderPool == <<"Invoice Date", "Vendor", "Part No", "Qty", "Total">>

\* What the zero-shot classifier answers for one header: the candidate labels
\* ordered by descending score, and their scores (in hundredths, summing to 100)
ScoreTriples == {<<60, 20, 20>>, <<20, 60, 20>>, <<20, 20, 60>>,
                 <<20, 40, 40>>, <<40, 20, 40>>, <<40, 40, 20>>}

ClassifierResult(triple) ==
    LET p == StableDescOrder(triple)
    IN  [labels |-> [q \in 1..3 |-> labels[p[q]]],
         scores |-> [q \in 1..3 |-> triple[p[q]]]]

ClassifierResults == {ClassifierResult(t) : t \in ScoreTriples}

\* result['labels'].index(label)
IndexOf(seq, x) == CHOOSE k \in DOMAIN seq : seq[k] = x /\ \A j \in 1..(k - 1) : seq[j] # x

\* Line 37
ScoreOf(result, label) == result.scores[IndexOf(result.labels, label)]

\* An ascending sort read backwards: descending, but equal scores in reverse order
sorted_then_reversed(columns) ==
    LET w == [k \in DOMAIN columns |-> columns[k][2]]
        before(j) == {i \in DOMAIN w : w[i] > w[j] \/ (w[i] = w[j] /\ i > j)}
    IN  [q \in DOMAIN columns |->
            columns[CHOOSE j \in DOMAIN w : Cardinality(before(j)) + 1 = q]]

\* Line 40: sorted(columns, key=lambda x: x[1], reverse=True), which is stable
sorted_by_score(columns) ==
    LET p == StableDescOrder([k \in DOMAIN columns |-> columns[k][2]])
    IN  [q \in DOMAIN columns |-> columns[p[q]]]

LabelSet == {labels[k] : k \in DOMAIN labels}

InitRank ==
    /\ pc = "classify"
    /\ sheet = <<>>
    /\ data = <<>>
    /\ IdleTables
    /\ IdleForecast
    /\ headers \in {SubSeq(HeaderPool, 1, n) : n \in 0..MaxHeaders}
    /\ results = [l \in LabelSet |-> <<>>]
    /\ ranked_columns = <<>>

\* Lines 34-38: one iteration of the loop over the headers
ClassifyHeader ==
    /\ pc = "classify"
    /\ Len(results["date"]) < Len(headers)
    /\ \E result \in ClassifierResults :
          LET header == headers[Len(results["date"]) + 1]
          IN  results' = [l \in LabelSet |->
                             Append(results[l], <<header, ScoreOf(result, l)>>)]
    /\ UNCHANGED <<pc, headers, ranked_columns>>
    /\ UNCHANGED <<mainVars, forecastVars>>

\* Lines 40-42
RankColumns ==
    /\ pc = "classify"
    /\ Len(results["date"]) = Len(headers)
    /\ ranked_columns' = [l \in LabelSet |-> sorted_by_score(results[l])]
    /\ pc' = "ranked"
    /\ UNCHANGED <<headers, results>>
    /\ UNCHANGED <<mainVars, forecastVars>>

NextRank ==
    \/ ClassifyHeader
    \/ RankColumns

SpecRank == InitRank /\ [][NextRank]_vars

-----------------------------------------------------------------------------
(* Properties *)

FirstPassDone == pc \in {"manufacturers", "items", "forecast", "forecasted", "aborted", "saved"}
SecondPassDone == pc \in {"items", "forecast", "forecasted", "aborted", "saved"}

CountsOf(table) == [j \in DOMAIN table |-> [key |-> table[j].key, n |-> table[j].TotalFrequency]]

\* The rows of a table in descending Total Frequency order (equal frequencies
\* keep the order they have), with the cumulative percentage of that order
InDescendingOrder(table) ==
    LET p == StableDescOrder([j \in DOMAIN table |-> table[j].TotalFrequency])
    IN  Concentration(CountsOf([q \in DOMAIN table |-> table[p[q]]]))

\* The keys of the prefix of the descending-order table ending at the last row
\* whose cumulative percentage is at most 80.0
ParetoPrefix(table) ==
    LET d    == InDescendingOrder(table)
        ok   == {j \in DOMAIN d : d[j].CumulativePercentage <= 800}
        last == IF ok = {} THEN 0 ELSE CHOOSE j \in ok : \A i \in ok : i <= j
    IN  SubSeq(Keys(d), 1, last)

\* C1: in both passes the selection is the prefix of the concentration table in
\* descending Total Frequency order that ends at the last row whose Cumulative
\* Percentage is <= 80.0 (empty when the first row is already above 80)
C1_SelectionIsDescendingPrefix ==
    /\ FirstPassDone => Keys(top_80_manufacturers) = ParetoPrefix(manufacturer_total_freq)
    /\ SecondPassDone => Keys(top_80_items) = ParetoPrefix(item_total_freq)

Contributions(table) == [j \in DOMAIN table |-> table[j].PercentContribution]

Dominated(table) == table # <<>> /\ table[1].PercentContribution > 800

\* C2 as stated: when the first row alone contributes more than 80% the
\* selection is exactly the first row, and for [50, 30, 15, 5] it is the first
\* two rows
C2_DominantFirstRowIsSelected ==
    pc = "manufacturers" =>
        /\ Dominated(manufacturer_total_freq) =>
               Keys(top_80_manufacturers) = SubSeq(Keys(manufacturer_total_freq), 1, 1)
        /\ Contributions(manufacturer_total_freq) = <<500, 300, 150, 50>> =>
               Keys(top_80_manufacturers) = SubSeq(Keys(manufacturer_total_freq), 1, 2)

\* C2 as amended: when the first row alone contributes more than 80% the
\* selection is empty, and for [50, 30, 15, 5] it is exactly the first two rows
C2_DominantFirstRowYieldsEmpty ==
    pc = "manufacturers" =>
        /\ Dominated(manufacturer_total_freq) => top_80_manufacturers = <<>>
        /\ Contributions(manufacturer_total_freq) = <<500, 300, 150, 50>> =>
               Keys(top_80_manufacturers) = SubSeq(Keys(manufacturer_total_freq), 1, 2)

C2_Witness ==
    /\ pc = "manufacturers"
    /\ Contributions(manufacturer_total_freq) = <<900, 100>>
    /\ top_80_manufacturers = <<>>

\* The dates a pair has among the records of the table
DatesOf(pair) ==
    {data[k].date : k \in {i \in DOMAIN data :
                              data[i].manufacturer = pair[1] /\ data[i].item = pair[2]}}

Forecastable(pair) == Cardinality(DatesOf(pair)) >= 2

Tags(blocks) == [k \in DOMAIN blocks |-> <<blocks[k].manufacturer, blocks[k].item>>]

\* C3: when every pair is skipped (top_items empty included) the call ends in
\* the named EmptyForecastSet condition
C3_AllSkippedIsEmptyForecastSet ==
    (status \in {"returned", "raised"}
        /\ \A k \in DOMAIN top_items : ~Forecastable(top_items[k]))
    => (status = "raised" /\ exc = "EmptyForecastSet")

\* C4: a pair with fewer than 2 distinct dates yields no rows and raises
\* nothing: while no fit has failed, the forecasts gathered are those of the
\* pairs visited that have 2 or more distinct dates, each with rows; the call
\* raises only if no pair has 2 distinct dates, and what it returns is tagged
\* with exactly the pairs that have
C4_ShortPairsAreSkippedQuietly ==
    (status # "idle" /\ fit_failed = <<>>) =>
        /\ Tags(forecast_results) =
               SelectSeq(SubSeq(top_items, 1, idx - 1), Forecastable)
        /\ \A k \in DOMAIN forecast_results : forecast_results[k].rows > 0
        /\ status = "raised" => \A k \in DOMAIN top_items : ~Forecastable(top_items[k])
        /\ status = "returned" => Tags(combined_forecast) = SelectSeq(top_items, Forecastable)

C4_Witness ==
    /\ status = "returned"
    /\ \E k \in DOMAIN top_items : ~Forecastable(top_items[k])
    /\ \E k \in DOMAIN top_items : Forecastable(top_items[k])
    /\ Len(combined_forecast) < Len(top_items)

\* C5: a fit or predict failure on one pair skips that pair only: the call goes
\* on and returns the forecasts of the other pairs
C5_FitFailureSkipsOnePair ==
    fit_failed # <<>> =>
        /\ status \in {"running", "returned"}
        /\ status = "returned" =>
               Tags(combined_forecast) =
                   SelectSeq(top_items,
                             LAMBDA p : Forecastable(p)
                                        /\ \A k \in DOMAIN fit_failed : fit_failed[k] # p)

\* A text 'y-m-d' names a day of the calendar: the day falls before the first
\* day of the next month
NamesADay(y, m, d) ==
    /\ m \in 1..12
    /\ d >= 1
    /\ DaysFromCivil(y, m, d) <
           (IF m = 12 THEN DaysFromCivil(y + 1, 1, 1) ELSE DaysFromCivil(y, m + 1, 1))

\* A cell of the sheet that holds no date: it is missing, or a text that
\* names no day of the calendar
HoldsNoDate(c) ==
    \/ IsNa(c)
    \/ c.t = "str" /\ ~(Len(c.v) = 3 /\ NamesADay(c.v[1], c.v[2], c.v[3]))

\* C6: for every input table, numeric or not, the conversion does not raise
\* and leaves in every cell a timestamp or the invalid marker, the marker
\* wherever the cell holds no date; the drop step keeps the records whose
\* date is a timestamp, all of them and in order; every later stage sees
\* timestamps only
C6_InvalidDatesAreMarkedAndDropped ==
    /\ [](pc # "crashed")
    /\ [](pc = "converted" =>
              /\ Len(data) = Len(sheet)
              /\ \A k \in DOMAIN data :
                     /\ data[k].date.t \in {"ts", "nat"}
                     /\ HoldsNoDate(sheet[k].date) => data[k].date = NaT)
    /\ [][pc = "converted" =>
              data' = SelectSeq(data, LAMBDA r : r.date.t = "ts")]_vars
    /\ [](pc \in {"dropped", "weeks"} \/ FirstPassDone =>
              \A k \in DOMAIN data : data[k].date.t = "ts")

NonIncreasing(w) == \A j \in 1..(Len(w) - 1) : w[j] >= w[j + 1]
NonDecreasing(w) == \A j \in 1..(Len(w) - 1) : w[j] <= w[j + 1]

Frequencies(table) == [j \in DOMAIN table |-> table[j].TotalFrequency]
Cumulative(table) == [j \in DOMAIN table |-> table[j].CumulativePercentage]

OrderedConcentration(table) ==
    /\ NonIncreasing(Frequencies(table))
    /\ NonDecreasing(Cumulative(table))
    /\ \A j \in DOMAIN table :
           table[j].CumulativePercentage = SumTo(Contributions(table), j)

\* C7: in both passes the concentration table is in descending Total Frequency
\* order, and Cumulative Percentage is the running sum of Percent Contribution
\* in that order, non-decreasing
C7_TablesAreDescending ==
    /\ FirstPassDone => OrderedConcentration(manufacturer_total_freq)
    /\ SecondPassDone => OrderedConcentration(item_total_freq)

PositionIn(seq, x) == CHOOSE k \in DOMAIN seq : seq[k] = x

RankedRight(label) ==
    LET out == ranked_columns[label]
    IN  /\ Len(out) = Len(headers)
        /\ \A h \in DOMAIN headers :
               Cardinality({q \in DOMAIN out : out[q][1] = headers[h]}) = 1
        /\ \A q \in DOMAIN out : \E k \in DOMAIN results[label] : results[label][k] = out[q]
        /\ \A q, r \in DOMAIN out :
               q < r =>
                   \/ out[q][2] > out[r][2]
                   \/ /\ out[q][2] = out[r][2]
                      /\ PositionIn(headers, out[q][1]) < PositionIn(headers, out[r][1])

\* C8: for each role the returned sequence holds every header exactly once with
\* its score, by descending score, equal scores in header order
C8_RankedByScoreStable ==
    pc = "ranked" => \A l \in LabelSet : RankedRight(l)

C8_Witness ==
    /\ pc = "ranked"
    /\ \E q \in 1..(Len(headers) - 1) :
           ranked_columns["date"][q][2] = ranked_columns["date"][q + 1][2]
    /\ \E q \in DOMAIN headers : ranked_columns["date"][q][1] # headers[q]

\* C9: every pair handed to forecast_usage has its manufacturer in the first
\* pass's selection and occurs in a surviving record; when that selection is
\* empty the second-pass tables and the list of pairs are empty
C9_PairsComeFromTopManufacturers ==
    /\ (SecondPassDone /\ status # "idle") =>
           /\ top_items = Keys(top_80_items)
           /\ \A k \in DOMAIN top_items :
                  /\ <<top_items[k][1]>> \in KeySet(top_80_manufacturers)
                  /\ \E i \in DOMAIN data : <<data[i].manufacturer, data[i].item>> = top_items[k]
    /\ (SecondPassDone /\ top_80_manufacturers = <<>>) =>
           /\ top_manufacturer_item_count = <<>>
           /\ item_total_freq = <<>>
           /\ top_80_items = <<>>
           /\ status # "idle" => top_items = <<>>

C9_Witness ==
    /\ pc = "forecast"
    /\ top_items # <<>>
    /\ \E i \in DOMAIN data : <<data[i].manufacturer>> \notin KeySet(top_80_manufacturers)

SameWeek(r1, r2) == MondayOf(Day(r1.date)) = MondayOf(Day(r2.date))

RowOf(table, key) == CHOOSE j \in DOMAIN table : table[j].key = key

\* C10: two surviving records of the same key are counted in the same row of a
\* weekly frequency table exactly when their dates lie in the same
\* Monday-to-Sunday week
C10_WeeklyRowsAreSingleWeeks ==
    /\ FirstPassDone =>
           \A i, j \in DOMAIN data :
               data[i].manufacturer = data[j].manufacturer =>
                   (RowOf(manufacturer_count, WeekManKeys(data)[i])
                        = RowOf(manufacturer_count, WeekManKeys(data)[j])
                    <=> SameWeek(data[i], data[j]))
    /\ SecondPassDone =>
           \A i, j \in DOMAIN FilterTop(data) :
               LET d == FilterTop(data)
               IN  (d[i].manufacturer = d[j].manufacturer /\ d[i].item = d[j].item) =>
                       (RowOf(top_manufacturer_item_count, WeekManItemKeys(d)[i])
                            = RowOf(top_manufacturer_item_count, WeekManItemKeys(d)[j])
                        <=> SameWeek(d[i], d[j]))

====
